---------------------------- MODULE Spec2Model ----------------------------
(***************************************************************************)
(* State-machine model of src/main.rs: the noise gate, the capture         *)
(* callback (activity segmenter), the bounded mpsc channel, the consumer   *)
(* loop of run_main with process_audio, the rate limiter and the chunked   *)
(* chatbox dispatcher.                                                     *)
(*                                                                         *)
(* Time is an integer number of seconds.  Samples are integers; a block is *)
(* a sequence of samples; a text is a sequence of characters (integers).   *)
(***************************************************************************)
EXTENDS Integers, Sequences, FiniteSets, TLC

VARIABLES
    config,         \* Config (main.rs:14-77), fixed after start-up
    now,            \* the clock read by Instant::now()
    noise_gate,     \* NoiseGate {last_active, is_active}
    is_recording,   \* capture closure state (main.rs:450)
    silent_frames,  \* capture closure state (main.rs:451)
    audio_data,     \* the sample buffer behind the mutex (main.rs:440)
    chan,           \* contents of mpsc::channel::<AudioEvent>(100)
    pc,             \* where the consumer task of run_main is suspended
    cur,            \* the AudioData payload process_audio is working on
    rate_limiter,   \* RateLimiter {last_request, request_count, max_requests}
    rl_pc,          \* "idle", or "sleeping" inside RateLimiter::wait
    wake_at,        \* earliest instant at which the sleep of wait() ends
    message,        \* the text handed to send_to_chatbox
    chunk_i,        \* loop index i of send_to_chatbox
    transcription,  \* the text transcribe_audio returned
    sent,           \* history: packets the current send_to_chatbox call sent
    dispatch_result,\* what the last send_to_chatbox returned
    result,         \* what the last process_audio returned
    inputs,         \* history: every block delivered, with its instant
    emitted,        \* history: every event the callback passed to try_send
    accepted,       \* history: for each emitted event, whether try_send took it
    handled,        \* history: every event rx.recv() returned
    osc,            \* history: every packet the UDP socket sent
    attempts,       \* history: chunk indexes whose send_to was attempted
    calls,          \* history: external service calls made by the consumer
    grants,         \* history: the instants at which wait() returned
    capture,        \* the audio thread: "running" between callbacks,
                    \* "send_stop" inside a finalizing callback before its
                    \* last try_send, "panicked" once an unwrap() has failed
    opened          \* history: the index in inputs of the block that opened
                    \* the segment last opened (0: none yet)

captureVars == <<noise_gate, is_recording, silent_frames, audio_data, capture>>
limiterVars == <<rate_limiter, rl_pc, wake_at, grants>>
dispatchVars == <<message, chunk_i, attempts, sent, dispatch_result>>
producerHist == <<inputs, emitted, accepted, opened>>
vars == <<config, now, noise_gate, is_recording, silent_frames, audio_data,
          chan, pc, cur, rate_limiter, rl_pc, wake_at, message, chunk_i,
          transcription, sent, dispatch_result, result, inputs, emitted,
          accepted, handled, osc, attempts, calls, grants, capture, opened>>

---------------------------------------------------------------------------
(* Program constants *)

\* mpsc::channel::<AudioEvent>(100)
ChannelCapacity == 100

\* Duration::from_secs(60) in RateLimiter::wait
Window == 60

\* .chunks(144) in send_to_chatbox
ChunkSize == 144

\* the device's default input configuration (main.rs:430-433)
device_config == [channels |-> 1, sample_rate |-> 1]

---------------------------------------------------------------------------
(* Bounds of the model *)

\* capture callbacks in one behaviour of SpecCapture
MaxCalls == 4

\* capture callbacks in one behaviour of Spec
MaxPipeCalls == 4

\* largest silence_threshold drawn
MaxSilence == 2

\* largest noise_gate_hold_time drawn
MaxHold == 1

\* largest requests_per_minute drawn for the rate limiter alone
MaxRequests == 2

\* acquisitions in one behaviour of SpecRL
MaxGrants == 4

\* longest translation response drawn for the dispatcher
MaxLen == 300

\* largest max_message_chunks drawn for the dispatcher
MaxChunks == 3

\* capture callbacks in one behaviour of SpecBackpressure
MaxTrainCalls == 70

\* the gaps, in seconds, between two capture callbacks
Gaps == {0, 1}

\* the gaps, in seconds, between two calls of RateLimiter::wait, and by how
\* much a sleep may overrun
WaitGaps == {0, 1, 59, 60}
Overruns == {0, 1}

---------------------------------------------------------------------------
(* Helpers *)

Min(a, b) == IF a < b THEN a ELSE b

Max(a, b) == IF a > b THEN a ELSE b

Abs(x) == IF x < 0 THEN -x ELSE x

\* a text of L distinct characters
Text(L) == [i \in 1..L |-> i]

\* the sample blocks the device delivers: peaks 0, 1 and 2
Blocks == { <<0>>, <<-1>>, <<-2, 0>> }

---------------------------------------------------------------------------
(* NoiseGate (main.rs:114-143) *)

\* samples.iter().map(|&s| s.abs()).fold(0.0f32, f32::max)
RECURSIVE MaxAmplitude(_)
MaxAmplitude(samples) ==
    IF samples = <<>> THEN 0
    ELSE Max(MaxAmplitude(SubSeq(samples, 1, Len(samples) - 1)),
             Abs(samples[Len(samples)]))

NoiseGateNew(t) == [last_active |-> t, is_active |-> FALSE]

\* mutant: the gate closes as soon as hold_time has elapsed, not after it
NoiseGateProcessEager(gate, samples, t) ==
    IF MaxAmplitude(samples) > config.audio.noise_gate_threshold
    THEN [last_active |-> t, is_active |-> TRUE]
    ELSE IF gate.is_active
            /\ t - gate.last_active >= config.audio.noise_gate_hold_time
         THEN [gate EXCEPT !.is_active = FALSE]
         ELSE gate

\* NoiseGate::process called at instant t: the gate after the call
NoiseGateProcess(gate, samples, t) ==
    IF MaxAmplitude(samples) > config.audio.noise_gate_threshold
    THEN [last_active |-> t, is_active |-> TRUE]
    ELSE IF gate.is_active
            /\ t - gate.last_active > config.audio.noise_gate_hold_time
         THEN [gate EXCEPT !.is_active = FALSE]
         ELSE gate

---------------------------------------------------------------------------
(* AudioEvent and the channel (main.rs:416-420, 574) *)

StartRecording == [type |-> "StartRecording"]

StopRecording == [type |-> "StopRecording"]

AudioData(wav) == [type |-> "AudioData", data |-> wav]

\* WavWriter over the buffer: the header's spec and the float samples
WavEncode(buffer) ==
    [channels |-> device_config.channels,
     sample_rate |-> device_config.sample_rate,
     samples |-> buffer]

\* mutant: the channel refuses events one short of its capacity
TrySendOkOffByOne(ch) == Len(ch) < ChannelCapacity - 1

\* tx.try_send(ev): whether the channel takes the event
TrySendOk(ch) == Len(ch) < ChannelCapacity

\* mutant: the send never fails, the channel grows without bound
TrySendUnbounded(ch, ev) == Append(ch, ev)

\* tx.try_send(ev) with the result ignored (let _ =)
TrySend(ch, ev) == IF TrySendOk(ch) THEN Append(ch, ev) ELSE ch

\* the events one callback passes to try_send, in order
RECURSIVE SendAll(_, _)
SendAll(ch, evs) ==
    IF evs = <<>> THEN ch
    ELSE SendAll(TrySend(ch, Head(evs)), Tail(evs))

\* for each of evs, whether try_send took it
RECURSIVE AcceptAll(_, _)
AcceptAll(ch, evs) ==
    IF evs = <<>> THEN <<>>
    ELSE <<TrySendOk(ch)>> \o AcceptAll(TrySend(ch, Head(evs)), Tail(evs))

\* mutant: recv hands out the newest event
FrontNewest(ch) == ch[Len(ch)]

\* rx.recv(): the event received, the oldest in the channel
Front(ch) == Head(ch)

\* rx.recv(): what stays in the channel
Rest(ch) == Tail(ch)

---------------------------------------------------------------------------
(* The input callback of start_audio_recording (main.rs:456-510) *)

\* mutant: the segment ends one silent callback too late
SilenceReachedLate(frames) == frames > config.audio.silence_threshold

\* mutant: the segment ends one silent callback too early
SilenceReachedEarly(frames) == frames + 1 >= config.audio.silence_threshold

\* if silent_frames >= silence_threshold (main.rs:471)
SilenceReached(frames) == frames >= config.audio.silence_threshold

\* mutant: StartRecording is sent for every block that finds the gate active
CallbackEventsAlwaysStart(active) ==
    IF active
    THEN <<StartRecording>>
    ELSE IF is_recording /\ SilenceReached(silent_frames + 1)
            /\ audio_data # <<>>
         THEN <<AudioData(WavEncode(audio_data))>>
         ELSE <<>>

\* the events the callback passes to try_send, given the gate's answer, up
\* to buffer.clear(): StartRecording when a segment opens (main.rs:463), the
\* payload when one is finalized (main.rs:499)
CallbackEvents(active) ==
    IF active
    THEN IF ~is_recording THEN <<StartRecording>> ELSE <<>>
    ELSE IF is_recording /\ SilenceReached(silent_frames + 1)
            /\ audio_data # <<>>
         THEN <<AudioData(WavEncode(audio_data))>>
         ELSE <<>>

\* mutant: the buffer is not cleared after a segment has been finalized
NotCleared(buffer) == buffer

\* buffer.clear() after the payload has been sent (main.rs:500)
Cleared(buffer) == <<>>

\* One invocation of the callback. When it finalizes a segment it stops
\* short of the last try_send (main.rs:503), which is CallbackSendStop: the
\* consumer, on another thread, may take an event between the two sends.
Callback(data, dt) ==
    LET t == now + dt
        gate == NoiseGateProcess(noise_gate, data, t)
        evs == CallbackEvents(gate.is_active)
    IN  /\ capture = "running"
        /\ capture' = IF ~gate.is_active /\ is_recording
                         /\ SilenceReached(silent_frames + 1)
                      THEN "send_stop" ELSE "running"
        /\ now' = t
        /\ noise_gate' = gate
        /\ opened' = IF gate.is_active /\ ~is_recording
                     THEN Len(inputs) + 1 ELSE opened
        /\ IF gate.is_active
           THEN /\ is_recording' = TRUE
                /\ audio_data' = audio_data \o data
                /\ silent_frames' = 0
           ELSE IF is_recording
                THEN IF SilenceReached(silent_frames + 1)
                     THEN /\ is_recording' = FALSE
                          /\ silent_frames' = 0
                          /\ audio_data' = Cleared(audio_data)
                     ELSE /\ silent_frames' = silent_frames + 1
                          /\ audio_data' = audio_data \o data
                          /\ UNCHANGED is_recording
                ELSE UNCHANGED <<is_recording, silent_frames, audio_data>>
        /\ chan' = SendAll(chan, evs)
        /\ emitted' = emitted \o evs
        /\ accepted' = accepted \o AcceptAll(chan, evs)
        /\ inputs' = Append(inputs, [data |-> data, at |-> t])
        /\ UNCHANGED <<config, pc, cur, limiterVars, dispatchVars, result,
                       transcription, handled, osc, calls>>

\* the end of a finalizing callback: try_send(AudioEvent::StopRecording)
\* (main.rs:503), after which the callback returns
CallbackSendStop ==
    /\ capture = "send_stop"
    /\ chan' = TrySend(chan, StopRecording)
    /\ emitted' = Append(emitted, StopRecording)
    /\ accepted' = Append(accepted, TrySendOk(chan))
    /\ capture' = "running"
    /\ UNCHANGED <<config, now, noise_gate, is_recording, silent_frames,
                   audio_data, inputs, opened, pc, cur, limiterVars,
                   dispatchVars, result, transcription, handled, osc, calls>>

\* The callback that finalizes a segment when the encoding of the buffer
\* fails: WavWriter::new, write_sample and finalize return a Result that the
\* callback unwraps (main.rs:486-497). The panic comes after is_recording
\* and silent_frames were reset (main.rs:472-473) and before any try_send;
\* it unwinds out of the callback with the buffer's mutex guard held, so the
\* buffer keeps its samples behind a poisoned mutex and the audio thread
\* ends (on hosts that call the callback across an FFI boundary the process
\* aborts instead): no later callback runs.
CallbackEncodeFails(data, dt) ==
    LET t == now + dt
        gate == NoiseGateProcess(noise_gate, data, t)
    IN  /\ capture = "running"
        /\ ~gate.is_active
        /\ is_recording
        /\ SilenceReached(silent_frames + 1)
        /\ audio_data # <<>>
        /\ now' = t
        /\ noise_gate' = gate
        /\ is_recording' = FALSE
        /\ silent_frames' = 0
        /\ capture' = "panicked"
        /\ inputs' = Append(inputs, [data |-> data, at |-> t])
        /\ UNCHANGED <<config, audio_data, chan, emitted, accepted, opened, pc,
                       cur, limiterVars, dispatchVars, result, transcription,
                       handled, osc, calls>>

---------------------------------------------------------------------------
(* RateLimiter (main.rs:79-112) *)

RateLimiterNew(max_requests, t) ==
    [last_request |-> t, request_count |-> 0, max_requests |-> max_requests]

\* mutant: the limiter lets max_requests + 1 calls through per window
WaitMustSleepOffByOne(rl, t) ==
    /\ t - rl.last_request < Window
    /\ rl.request_count > rl.max_requests

\* mutant: the sleep lasts a full window instead of its remainder
WaitTimeFull(rl, t) == Window

\* wait() called at instant t: the branch that sleeps (main.rs:98-99)
WaitMustSleep(rl, t) ==
    /\ t - rl.last_request < Window
    /\ rl.request_count >= rl.max_requests

\* let wait_time = Duration::from_secs(60) - elapsed
WaitTime(rl, t) == Window - (t - rl.last_request)

\* mutant: a call that returns at once inside the window is not counted
WaitNoSleepNoCount(rl, t) ==
    IF t - rl.last_request < Window
    THEN rl
    ELSE [rl EXCEPT !.request_count = 1, !.last_request = t]

\* wait() at instant t when it does not sleep: the limiter on return
WaitNoSleep(rl, t) ==
    IF t - rl.last_request < Window
    THEN [rl EXCEPT !.request_count = @ + 1]
    ELSE [rl EXCEPT !.request_count = 1, !.last_request = t]

\* mutant: the count is not reset after the sleep
WaitAfterSleepNoReset(rl, t) ==
    [rl EXCEPT !.request_count = @ + 1, !.last_request = t]

\* wait() resuming at instant t after its sleep: the limiter on return
WaitAfterSleep(rl, t) ==
    [rl EXCEPT !.request_count = 0 + 1, !.last_request = t]

\* a grant: the instant wait() returned and the window it was counted in
Grant(rl, t) == [at |-> t, window |-> rl.last_request]

\* wait() called at instant t, up to its return or its suspension in sleep()
WaitEnter(t) ==
    /\ rl_pc = "idle"
    /\ now' = t
    /\ IF WaitMustSleep(rate_limiter, t)
       THEN /\ rl_pc' = "sleeping"
            /\ wake_at' = t + WaitTime(rate_limiter, t)
            /\ UNCHANGED <<rate_limiter, grants>>
       ELSE /\ rate_limiter' = WaitNoSleep(rate_limiter, t)
            /\ grants' = Append(grants, Grant(rate_limiter', t))
            /\ UNCHANGED <<rl_pc, wake_at>>

\* sleep(wait_time) is over (never before wake_at): wait() resets and returns
WaitWake(late) ==
    /\ rl_pc = "sleeping"
    /\ now' = Max(now, wake_at) + late
    /\ rate_limiter' = WaitAfterSleep(rate_limiter, now')
    /\ rl_pc' = "idle"
    /\ grants' = Append(grants, Grant(rate_limiter', now'))
    /\ UNCHANGED wake_at

---------------------------------------------------------------------------
(* TypingIndicator and send_to_chatbox packets (main.rs:156-170, 224-231) *)

TypingMessage(is_typing) ==
    [addr |-> "/chatbox/typing", args |-> <<is_typing>>]

ChatboxMessage(chunk, i) ==
    [addr |-> "/chatbox/input", args |-> <<chunk, TRUE, i = 0>>]

\* message.chars().collect::<Vec<char>>().chunks(144): how many chunks
NumChunks(text) == (Len(text) + ChunkSize - 1) \div ChunkSize

\* the chunk at 0-based position i of .chunks(144)
Chunk(text, i) ==
    SubSeq(text, i * ChunkSize + 1, Min((i + 1) * ChunkSize, Len(text)))

\* mutant: the loop ignores max_message_chunks
LoopCountNoCap(text) == NumChunks(text)

\* how many iterations .enumerate().take(max_message_chunks) yields
LoopCount(text) == Min(NumChunks(text), config.osc.max_message_chunks)

---------------------------------------------------------------------------
(* process_audio helpers (main.rs:361-374, 409-414) *)

\* reader.duration(): samples per channel
WavFrames(wav) == Len(wav.samples) \div wav.channels

\* mutant: the duration test lets a segment one frame short go through
AudioTooShortOffByOne(wav) ==
    WavFrames(wav) + 1 < config.audio.min_transcription_duration * wav.sample_rate

\* audio_duration < min_duration, with audio_duration = frames / sample_rate
AudioTooShort(wav) ==
    WavFrames(wav) < config.audio.min_transcription_duration * wav.sample_rate

---------------------------------------------------------------------------
(* The consumer loop of run_main (main.rs:591-615) and process_audio *)

consumerRest == <<config, now, captureVars, producerHist>>

\* rx.recv().await returns the oldest queued event; match event
Recv ==
    /\ pc = "recv"
    /\ chan # <<>>
    /\ LET event == Front(chan)
       IN  /\ chan' = Rest(chan)
           /\ handled' = Append(handled, event)
           /\ pc' = CASE event.type = "StartRecording" -> "start_typing"
                      [] event.type = "StopRecording" -> "stop_typing"
                      [] event.type = "AudioData" -> "process_audio"
           /\ cur' = IF event.type = "AudioData" THEN event.data ELSE cur
    /\ UNCHANGED <<consumerRest, limiterVars, dispatchVars, transcription,
                   result, osc, calls>>

\* typing_indicator.start_typing().await (a failed send is only logged)
StartTyping(ok) ==
    /\ pc = "start_typing"
    /\ osc' = IF ok THEN Append(osc, TypingMessage(TRUE)) ELSE osc
    /\ pc' = "recv"
    /\ UNCHANGED <<consumerRest, chan, cur, limiterVars, dispatchVars,
                   transcription, result, handled, calls>>

\* typing_indicator.stop_typing().await for a StopRecording event
StopTyping(ok) ==
    /\ pc = "stop_typing"
    /\ osc' = IF ok THEN Append(osc, TypingMessage(FALSE)) ELSE osc
    /\ pc' = "recv"
    /\ UNCHANGED <<consumerRest, chan, cur, limiterVars, dispatchVars,
                   transcription, result, handled, calls>>

\* process_audio up to the call of transcribe_audio (main.rs:361-376)
ProcessAudio ==
    /\ pc = "process_audio"
    /\ pc' = IF AudioTooShort(cur) THEN "short_stop_typing" ELSE "rl_wait"
    /\ UNCHANGED <<consumerRest, chan, cur, limiterVars, dispatchVars,
                   transcription, result, handled, osc, calls>>

\* stop_typing of process_audio (main.rs:372 and 404), then return Ok(())
ProcessStopTyping(ok) ==
    /\ pc \in {"short_stop_typing", "final_stop_typing"}
    /\ osc' = IF ok THEN Append(osc, TypingMessage(FALSE)) ELSE osc
    /\ result' = "Ok"
    /\ pc' = "recv"
    /\ UNCHANGED <<consumerRest, chan, cur, limiterVars, dispatchVars,
                   transcription, handled, calls>>

\* transcribe_audio: rate_limiter.wait().await, up to its return or sleep
TranscribeWait ==
    /\ pc = "rl_wait"
    /\ WaitEnter(now)
    /\ pc' = IF rl_pc' = "idle" THEN "transcribe_send" ELSE "rl_wait"
    /\ UNCHANGED <<config, captureVars, producerHist, chan, cur, dispatchVars,
                   transcription, result, handled, osc, calls>>

\* transcribe_audio: the sleep inside wait() is over, late seconds after
\* its deadline (the timer fires and the task is polled no earlier than it)
TranscribeWake(late) ==
    /\ pc = "rl_wait"
    /\ WaitWake(late)
    /\ pc' = "transcribe_send"
    /\ UNCHANGED <<config, captureVars, producerHist, chan, cur, dispatchVars,
                   transcription, result, handled, osc, calls>>

\* transcribe_audio: the request to the transcription service goes out and
\* the task is suspended in send().await (main.rs:271-276)
TranscribeSend ==
    /\ pc = "transcribe_send"
    /\ calls' = Append(calls, "transcribe")
    /\ pc' = "transcribe_answer"
    /\ UNCHANGED <<consumerRest, chan, cur, limiterVars, dispatchVars,
                   transcription, result, handled, osc>>

\* transcribe_audio resumed with the outcome of the request: a transport
\* error, a status that is not a success or a body that does not parse is
\* an Err, and so is an empty text (main.rs:276-293)
TranscribeAnswer(outcome, text) ==
    /\ pc = "transcribe_answer"
    /\ IF outcome = "ok" /\ text # <<>>
       THEN /\ transcription' = text
            /\ pc' = "translate_send"
            /\ UNCHANGED result
       ELSE /\ result' = "Err"
            /\ pc' = "recv"
            /\ UNCHANGED transcription
    /\ UNCHANGED <<consumerRest, chan, cur, limiterVars, dispatchVars,
                   handled, osc, calls>>

\* ask_chatgpt: the request to the translation service goes out and the
\* task is suspended in send().await (main.rs:192-196)
TranslateSend ==
    /\ pc = "translate_send"
    /\ calls' = Append(calls, "translate")
    /\ pc' = "translate_answer"
    /\ UNCHANGED <<consumerRest, chan, cur, limiterVars, dispatchVars,
                   transcription, result, handled, osc>>

\* ask_chatgpt resumed with the outcome of the request (main.rs:196-200);
\* choices[0] of an empty choices list panics
TranslateAnswer(outcome, response) ==
    /\ pc = "translate_answer"
    /\ CASE outcome = "ok" ->
              /\ message' = IF config.translation.include_original_message
                            THEN response \o <<10>> \o transcription
                            ELSE response
              /\ chunk_i' = 0
              /\ attempts' = <<>>
              /\ sent' = <<>>
              /\ dispatch_result' = "none"
              /\ pc' = "dispatch"
              /\ UNCHANGED result
         [] outcome = "err" ->
              /\ result' = "Err"
              /\ pc' = "recv"
              /\ UNCHANGED dispatchVars
         [] outcome = "no_choices" ->
              /\ pc' = "panicked"
              /\ UNCHANGED <<result, dispatchVars>>
    /\ UNCHANGED <<consumerRest, chan, cur, limiterVars, transcription,
                   handled, osc, calls>>

\* mutant: a failed send is swallowed and the loop goes on
SendFailedIgnored ==
    /\ chunk_i' = chunk_i + 1
    /\ UNCHANGED <<pc, dispatch_result, result, osc, sent>>

\* socket.send_to(..).await? fails: send_to_chatbox returns the error, and
\* process_audio returns it to the consumer loop (main.rs:234, 402)
SendFailed ==
    /\ dispatch_result' = "Err"
    /\ result' = "Err"
    /\ pc' = "recv"
    /\ UNCHANGED <<osc, sent, chunk_i>>

\* one iteration of the for loop of send_to_chatbox (main.rs:219-238)
SendChunk(ok) ==
    /\ pc = "dispatch"
    /\ chunk_i < LoopCount(message)
    /\ attempts' = Append(attempts, chunk_i)
    /\ IF ok
       THEN /\ osc' = Append(osc, ChatboxMessage(Chunk(message, chunk_i), chunk_i))
            /\ sent' = Append(sent, ChatboxMessage(Chunk(message, chunk_i), chunk_i))
            /\ chunk_i' = chunk_i + 1
            /\ UNCHANGED <<pc, dispatch_result, result>>
       ELSE SendFailed
    /\ UNCHANGED <<consumerRest, chan, cur, limiterVars, message,
                   transcription, handled, calls>>

\* the for loop of send_to_chatbox is exhausted: Ok(())
DispatchDone ==
    /\ pc = "dispatch"
    /\ chunk_i >= LoopCount(message)
    /\ dispatch_result' = "Ok"
    /\ pc' = "final_stop_typing"
    /\ UNCHANGED <<consumerRest, chan, cur, limiterVars, message, chunk_i,
                   attempts, sent, transcription, result, handled, osc, calls>>

---------------------------------------------------------------------------
(* Start-up (main.rs:445-452, 574-589) *)

InitWith(cfg) ==
    /\ config = cfg
    /\ now = 0
    /\ noise_gate = NoiseGateNew(0)
    /\ is_recording = FALSE
    /\ silent_frames = 0
    /\ audio_data = <<>>
    /\ chan = <<>>
    /\ pc = "recv"
    /\ cur = WavEncode(<<>>)
    /\ rate_limiter = RateLimiterNew(cfg.rate_limit.requests_per_minute, 0)
    /\ rl_pc = "idle"
    /\ wake_at = 0
    /\ message = <<>>
    /\ chunk_i = 0
    /\ transcription = <<>>
    /\ sent = <<>>
    /\ dispatch_result = "none"
    /\ result = "none"
    /\ inputs = <<>>
    /\ emitted = <<>>
    /\ accepted = <<>>
    /\ handled = <<>>
    /\ osc = <<>>
    /\ attempts = <<>>
    /\ calls = <<>>
    /\ grants = <<>>
    /\ capture = "running"
    /\ opened = 0

MkConfig(silence, hold, min_dur, rpm, max_chunks, incl) ==
    [audio |-> [silence_threshold |-> silence,
                noise_gate_threshold |-> 1,
                noise_gate_hold_time |-> hold,
                min_transcription_duration |-> min_dur],
     rate_limit |-> [requests_per_minute |-> rpm],
     osc |-> [max_message_chunks |-> max_chunks],
     translation |-> [include_original_message |-> incl]]

---------------------------------------------------------------------------
(* The pipeline: capture thread, channel and consumer *)

\* min_transcription_duration: an utterance of one loud block (2 samples)
\* passes the first and is too short for the second
MinDurations == {2, 3}

\* silence_threshold 1, hold_time 0, requests_per_minute 1,
\* max_message_chunks 1
Configs == { MkConfig(1, 0, d, 1, 1, FALSE) : d \in MinDurations }

Init == \E cfg \in Configs : InitWith(cfg)

\* the device invokes the callback with its next block, one second after
\* the previous one
CaptureStep ==
    \/ /\ Len(inputs) < MaxPipeCalls
       /\ \E data \in Blocks : Callback(data, 1)
    \/ CallbackSendStop

ConsumerStep ==
    \/ Recv
    \/ \E ok \in BOOLEAN : StartTyping(ok)
    \/ \E ok \in BOOLEAN : StopTyping(ok)
    \/ ProcessAudio
    \/ \E ok \in BOOLEAN : ProcessStopTyping(ok)
    \/ TranscribeWait
    \/ \E late \in Overruns : TranscribeWake(late)
    \/ TranscribeSend
    \/ \E outcome \in {"ok", "err"}, text \in {Text(0), Text(1)} :
          TranscribeAnswer(outcome, text)
    \/ TranslateSend
    \/ \E outcome \in {"ok", "err", "no_choices"}, response \in {Text(2)} :
          TranslateAnswer(outcome, response)
    \/ \E ok \in BOOLEAN : SendChunk(ok)
    \/ DispatchDone

Next == CaptureStep \/ ConsumerStep

Spec == Init /\ [][Next]_vars

---------------------------------------------------------------------------
(* The capture thread alone: every block sequence, every gate setting *)

CaptureConfigs ==
    { MkConfig(s, h, 2, 1, 1, FALSE) : s \in 0..MaxSilence, h \in 0..MaxHold }

InitCapture == \E cfg \in CaptureConfigs : InitWith(cfg)

NextCapture ==
    \/ /\ Len(inputs) < MaxCalls
       /\ \E data \in Blocks, dt \in Gaps : Callback(data, dt)
    \/ CallbackSendStop

SpecCapture == InitCapture /\ [][NextCapture]_vars

\* The capture callback when the encoder's Result may be an Err
NextEncode ==
    \/ /\ Len(inputs) < MaxCalls
       /\ \E data \in Blocks, dt \in Gaps :
             \/ Callback(data, dt)
             \/ CallbackEncodeFails(data, dt)
    \/ CallbackSendStop

SpecEncode == InitCapture /\ [][NextEncode]_vars

---------------------------------------------------------------------------
(* Vocabulary of the claims about the capture callback *)

\* block i of the input was above the gate threshold
Loud(i) ==
    MaxAmplitude(inputs[i].data) > config.audio.noise_gate_threshold

EventTypes(evs) == [i \in 1..Len(evs) |-> evs[i].type]

\* the samples of blocks lo..hi, in arrival order
RECURSIVE BlocksData(_, _)
BlocksData(lo, hi) ==
    IF lo > hi THEN <<>> ELSE BlocksData(lo, hi - 1) \o inputs[hi].data

\* callbacks in lo..hi that came more than hold_time after block k
PastHold(k, lo, hi) ==
    Cardinality({ i \in lo..hi :
        inputs[i].at - inputs[k].at > config.audio.noise_gate_hold_time })

\* the input so far: silence, a burst f..k of loud blocks, then silence
BurstThenSilence(f, k) ==
    /\ 1 <= f /\ f <= k /\ k < Len(inputs)
    /\ \A i \in 1..Len(inputs) : Loud(i) <=> (f <= i /\ i <= k)

\* the input so far: silence, a burst f..k, a dip k+1..d, loud blocks again
BurstDipBurst(f, k, d) ==
    /\ 1 <= f /\ f <= k /\ k < d /\ d <= Len(inputs)
    /\ \A i \in 1..Len(inputs) : Loud(i) <=> ((f <= i /\ i <= k) \/ d < i)

\* C1: a single burst followed by below-threshold blocks of which enough
\* come after hold_time to reach the silence-frame threshold makes the
\* callback emit exactly StartRecording, AudioData, StopRecording, in order
\* (once the callback of the last block has returned).
C1_SingleBurst ==
    \A f \in 1..Len(inputs), k \in 1..Len(inputs) :
        ( /\ capture = "running"
          /\ BurstThenSilence(f, k)
          /\ PastHold(k, k + 1, Len(inputs))
                >= Max(1, config.audio.silence_threshold) )
        => EventTypes(emitted)
              = <<"StartRecording", "AudioData", "StopRecording">>

\* C1 witness: a burst, then silence exceeding hold_time 1 and reaching the
\* silence threshold 2, and the three events emitted
C1_Witness ==
    /\ config.audio.silence_threshold = 2
    /\ config.audio.noise_gate_hold_time = 1
    /\ \E f \in 1..Len(inputs), k \in 1..Len(inputs) :
          /\ BurstThenSilence(f, k)
          /\ PastHold(k, k + 1, Len(inputs)) >= 2
    /\ EventTypes(emitted) = <<"StartRecording", "AudioData", "StopRecording">>

\* C4: a burst, a dip with fewer gate-inactive callbacks than the
\* silence-frame threshold, and renewed activity are one open segment: only
\* StartRecording was emitted and the buffer holds every block since the
\* burst began, the dip's included.
C4_DipBridged ==
    \A f \in 1..Len(inputs), k \in 1..Len(inputs), d \in 1..Len(inputs) :
        ( /\ BurstDipBurst(f, k, d)
          /\ PastHold(k, k + 1, d) < config.audio.silence_threshold )
        => /\ EventTypes(emitted) = <<"StartRecording">>
           /\ is_recording
           /\ audio_data = BlocksData(f, Len(inputs))

\* C4 witness: the gate went inactive during the dip, and activity resumed
C4_Witness ==
    \E f \in 1..Len(inputs), k \in 1..Len(inputs), d \in 1..Len(inputs) :
        /\ BurstDipBurst(f, k, d)
        /\ d < Len(inputs)
        /\ PastHold(k, k + 1, d) >= 1
        /\ PastHold(k, k + 1, d) < config.audio.silence_threshold
        /\ silent_frames = 0

---------------------------------------------------------------------------
(* The rate limiter alone: wait() called at arbitrary instants *)

InitRL ==
    \E rpm \in 0..MaxRequests : InitWith(MkConfig(1, 0, 2, rpm, 1, FALSE))

nonLimiter == <<config, captureVars, producerHist, chan, pc, cur,
                dispatchVars, transcription, result, handled, osc, calls>>

\* a caller invokes rate_limiter.wait()
Acquire ==
    /\ Len(grants) < MaxGrants
    /\ \E dt \in WaitGaps : WaitEnter(now + dt)
    /\ UNCHANGED nonLimiter

\* the sleep of a suspended wait() ends
AcquireWake ==
    /\ \E late \in Overruns : WaitWake(late)
    /\ UNCHANGED nonLimiter

NextRL == Acquire \/ AcquireWake

SpecRL == InitRL /\ [][NextRL]_vars

\* tokio's timer ends every sleep: a suspended wait() is resumed
SpecRLFair == SpecRL /\ WF_vars(AcquireWake)

\* the cap a window really has: wait() counts its own call after a reset
WindowCap == Max(config.rate_limit.requests_per_minute, 1)

\* C6 as claimed (for max_requests >= 1): any max_requests + 1 grants span
\* at least 60 seconds, so no 60-second interval holds more than max_requests.
C6_SlidingWindowCap ==
    config.rate_limit.requests_per_minute >= 1 =>
        \A i \in 1..Len(grants), j \in 1..Len(grants) :
            j - i = config.rate_limit.requests_per_minute
                => grants[j].at - grants[i].at >= Window

\* C6 amended: the cap holds per window of the limiter (from one reset of
\* last_request to the next, at least 60 seconds apart), so a 60-second
\* interval, which meets at most two windows, holds at most twice the cap.
C6_PerWindowCap ==
    /\ \A i \in 1..Len(grants) :
          Cardinality({ j \in 1..Len(grants) :
                          grants[j].window = grants[i].window }) <= WindowCap
    /\ \A i \in 1..Len(grants), j \in 1..Len(grants) :
          /\ grants[i].window < grants[j].window
                => grants[j].window - grants[i].window >= Window
          /\ j - i = 2 * WindowCap => grants[j].at - grants[i].at >= Window

\* C6 witness: a window filled to its cap of 2, and a later window
C6_Witness ==
    /\ config.rate_limit.requests_per_minute = 2
    /\ \E i \in 1..Len(grants), j \in 1..Len(grants) :
          /\ grants[i].window = grants[j].window /\ i < j
          /\ grants[Len(grants)].window > grants[i].window
          /\ grants[Len(grants)].at - grants[i].at < Window

\* C7: inside the window a call of wait() returns at once while fewer than
\* max_requests calls were counted; otherwise it sleeps until the window
\* ends (last_request + 60), and on waking sets last_request to the current
\* instant and the count to 1.
C7_WindowThenSuspend ==
    [][ /\ (rl_pc = "idle" /\ (rl_pc' = "sleeping" \/ grants' # grants)
            /\ now' - rate_limiter.last_request < Window)
           => IF rate_limiter.request_count < rate_limiter.max_requests
              THEN /\ rl_pc' = "idle"
                   /\ Len(grants') = Len(grants) + 1
                   /\ grants'[Len(grants')].at = now'
                   /\ rate_limiter' = [rate_limiter EXCEPT
                         !.request_count = rate_limiter.request_count + 1]
              ELSE /\ rl_pc' = "sleeping"
                   /\ wake_at' = rate_limiter.last_request + Window
                   /\ grants' = grants
                   /\ rate_limiter' = rate_limiter
        /\ (rl_pc = "sleeping" /\ rl_pc' = "idle")
           => /\ now' >= wake_at
              /\ rate_limiter'.last_request = now'
              /\ rate_limiter'.request_count = 1
              /\ Len(grants') = Len(grants) + 1
              /\ grants'[Len(grants')].at = now'
      ]_vars

\* C7 witness: with max_requests 2, two calls returned at once in one window
\* and the third slept and was counted first in the window it opened
C7_Witness ==
    /\ config.rate_limit.requests_per_minute = 2
    /\ Len(grants) = 3
    /\ grants[1].window = grants[2].window
    /\ grants[3].window = grants[1].window + Window
    /\ grants[3].at = grants[3].window
    /\ grants[3].at > grants[2].at
    /\ wake_at = grants[1].window + Window
    /\ grants[3].at = wake_at
    /\ rate_limiter.request_count = 1
    /\ rl_pc = "idle"

---------------------------------------------------------------------------
(* The dispatcher: one utterance whose translation is any text up to MaxLen *)

InitChunk ==
    \E mc \in 0..MaxChunks, incl \in BOOLEAN :
        InitWith(MkConfig(1, 0, 0, 1, mc, incl))

\* the device delivers one loud block, then one silent block
UtteranceStep ==
    /\ Len(inputs) < 2
    /\ Callback(IF is_recording THEN <<0>> ELSE <<-2, 0>>, 1)

NextChunk ==
    \/ UtteranceStep
    \/ CallbackSendStop
    \/ Recv
    \/ StartTyping(TRUE)
    \/ StopTyping(TRUE)
    \/ ProcessAudio
    \/ TranscribeWait
    \/ TranscribeSend
    \/ TranscribeAnswer("ok", Text(1))
    \/ TranslateSend
    \/ \E L \in 0..MaxLen : TranslateAnswer("ok", Text(L))
    \/ \E ok \in BOOLEAN : SendChunk(ok)
    \/ DispatchDone
    \/ ProcessStopTyping(TRUE)

SpecChunk == InitChunk /\ [][NextChunk]_vars

CeilDiv(a, b) == IF a % b = 0 THEN a \div b ELSE a \div b + 1

\* the texts of the chunk packets, concatenated in the order sent
RECURSIVE SentText(_)
SentText(packets) ==
    IF packets = <<>> THEN <<>>
    ELSE SentText(SubSeq(packets, 1, Len(packets) - 1))
            \o packets[Len(packets)].args[1]

\* C9: a dispatch in which no send failed has sent min(ceil(L/144), M)
\* chunks, at positions 0, 1, 2, ... in this order, each of at most 144
\* characters, which concatenated are the first min(L, 144*M) characters of
\* the text; the notify flag is true on the first chunk only.
C9_ChunksSent ==
    dispatch_result = "Ok" =>
        LET L == Len(message)
            M == config.osc.max_message_chunks
            n == Min(CeilDiv(L, ChunkSize), M)
        IN  /\ Len(sent) = n
            /\ attempts = [i \in 1..n |-> i - 1]
            /\ \A i \in 1..n :
                  /\ sent[i].addr = "/chatbox/input"
                  /\ Len(sent[i].args[1]) <= ChunkSize
                  /\ sent[i].args[3] = (i = 1)
            /\ SentText(sent) = SubSeq(message, 1, Min(L, ChunkSize * M))

\* C9 witness: a text longer than two chunks cut to max_message_chunks = 2
C9_Witness ==
    /\ dispatch_result = "Ok"
    /\ config.osc.max_message_chunks = 2
    /\ Len(message) > 2 * ChunkSize
    /\ Len(sent) = 2

\* C10: once the send of chunk k has failed, chunks 0..k-1 are the only
\* ones sent, each once, k is the last index attempted, the loop is over
\* and the error was returned.
C10_FailureAborts ==
    Len(sent) < Len(attempts) =>
        LET k == attempts[Len(attempts)]
        IN  /\ attempts = [i \in 1..(k + 1) |-> i - 1]
            /\ sent = [i \in 1..k |-> ChatboxMessage(Chunk(message, i - 1), i - 1)]
            /\ dispatch_result = "Err"
            /\ result = "Err"
            /\ pc # "dispatch"

\* C10 witness: the second of three chunks failed, and the consumer has
\* since handled the next event
C10_Witness ==
    /\ Len(attempts) = 2
    /\ Len(sent) = 1
    /\ LoopCount(message) = 3
    /\ dispatch_result = "Err"
    /\ Len(handled) = 3
    /\ pc = "recv"

---------------------------------------------------------------------------
(* Vocabulary of the claims about the channel *)

IsAudio(ev) == ev.type = "AudioData"

\* the emitted events try_send accepted, in order
Enqueued ==
    LET idx == SelectSeq([i \in 1..Len(emitted) |-> i], LAMBDA i : accepted[i])
    IN  [k \in 1..Len(idx) |-> emitted[idx[k]]]

\* the events of `emitted` that the callback step just taken added
NewEvents == SubSeq(emitted', Len(emitted) + 1, Len(emitted'))

\* C5: the events received so far, followed by those still queued, are the
\* enqueued events in enqueue order, each once; and an event is received
\* only while the consumer awaits rx.recv(), the previous event's handling
\* being over, and it is the oldest queued one.
C5_InOrderOneAtATime ==
    /\ [](handled \o chan = Enqueued)
    /\ [][ handled' # handled =>
             /\ pc = "recv"
             /\ chan # <<>>
             /\ handled' = Append(handled, chan[1])
             /\ pc' \in {"start_typing", "stop_typing", "process_audio"}
         ]_vars

\* C5 witness: two segments went through, the first one's pipeline up to
\* the dispatch, the second one's events received after it
C5_Witness ==
    /\ Len(handled) = 6
    /\ Len(calls) >= 2
    /\ Len(sent) = 1
    /\ pc = "recv"

\* C8 as claimed: the consumer has made no more calls to the transcription
\* and translation services than the rate limiter has granted acquisitions.
C8_CallsWithinGrants == Len(calls) <= Len(grants)

---------------------------------------------------------------------------
(* Backpressure: a train of short utterances, a consumer of any speed *)

InitBackpressure == InitWith(MkConfig(1, 0, 3, 1, 1, FALSE))

\* the device delivers loud and silent blocks in turn, one second apart,
\* no two loud blocks alike
TrainStep ==
    /\ Len(inputs) < MaxTrainCalls
    /\ Callback(IF is_recording THEN <<0>> ELSE <<2 + Len(inputs)>>, 1)

NextBackpressure ==
    \/ TrainStep
    \/ CallbackSendStop
    \/ Recv
    \/ StartTyping(TRUE)
    \/ StopTyping(TRUE)
    \/ ProcessAudio
    \/ ProcessStopTyping(TRUE)

SpecBackpressure == InitBackpressure /\ [][NextBackpressure]_vars

\* C2 as claimed: no finalized payload is lost: every AudioData the callback
\* emitted has been received or is queued.
C2_NoSegmentLost ==
    Len(SelectSeq(handled \o chan, IsAudio)) = Len(SelectSeq(emitted, IsAudio))

\* C2 amended: no payload is duplicated, and the payloads received or
\* queued are exactly those that try_send accepted, in order; an event is
\* refused only by a channel holding 100 events.
C2_NoDuplicateLossOnlyWhenFull ==
    /\ [](SelectSeq(handled \o chan, IsAudio) = SelectSeq(Enqueued, IsAudio))
    /\ [][ \A i \in (Len(emitted) + 1)..Len(emitted') :
             ~accepted'[i] => Len(chan') = ChannelCapacity
         ]_vars

\* C2 witness: a payload was dropped at a full channel while others were
\* received, and payloads emitted after the drop were enqueued again
C2_Witness ==
    \E i \in 1..Len(emitted), j \in 1..Len(emitted) :
        /\ i < j
        /\ IsAudio(emitted[i]) /\ ~accepted[i]
        /\ IsAudio(emitted[j]) /\ accepted[j]
        /\ Len(SelectSeq(handled, IsAudio)) >= 1

\* C3: the channel never holds more than 100 events; a try_send of the
\* callback at a channel that holds 100 leaves the channel as it was, the
\* event is not accepted, the callback goes on (to its next send, or
\* returns), and is_recording, silent_frames and the buffer are set as for
\* a send that succeeded.
C3_DropNotBlock ==
    /\ [](Len(chan) <= ChannelCapacity)
    /\ [][ (Len(chan) = ChannelCapacity /\ emitted' # emitted) =>
             /\ chan' = chan
             /\ Len(emitted') = Len(emitted) + 1
             /\ ~accepted'[Len(emitted')]
             /\ silent_frames' = 0
             /\ CASE EventTypes(NewEvents) = <<"StartRecording">> ->
                       /\ is_recording' /\ ~is_recording
                       /\ audio_data' = audio_data \o inputs'[Len(inputs')].data
                       /\ capture' = "running"
                  [] EventTypes(NewEvents) = <<"AudioData">> ->
                       /\ NewEvents[1].data.samples = audio_data
                       /\ ~is_recording' /\ is_recording
                       /\ audio_data' = <<>>
                       /\ capture' = "send_stop"
                  [] EventTypes(NewEvents) = <<"StopRecording">> ->
                       /\ ~is_recording' /\ ~is_recording
                       /\ audio_data' = <<>> /\ audio_data = <<>>
                       /\ capture = "send_stop" /\ capture' = "running"
         ]_vars

\* C3 witness: a StartRecording and, later, an AudioData were dropped at a
\* channel holding 100 events
C3_Witness ==
    /\ Len(chan) = ChannelCapacity
    /\ \E i \in 1..Len(emitted), j \in 1..Len(emitted) :
          /\ ~accepted[i] /\ emitted[i].type = "StartRecording"
          /\ ~accepted[j] /\ IsAudio(emitted[j])

---------------------------------------------------------------------------
(* Failure isolation in the consumer loop (main.rs:591-615) *)

\* the consumer step that ends a call of transcribe_audio, ask_chatgpt or
\* one send of send_to_chatbox without its successful outcome
StageFailed ==
    \/ /\ pc = "transcribe_answer"
       /\ pc' \notin {"transcribe_answer", "translate_send"}
    \/ /\ pc = "translate_answer"
       /\ pc' \notin {"translate_answer", "dispatch"}
    \/ pc = "dispatch" /\ Len(attempts') > Len(attempts) /\ sent' = sent

\* C11: a failure of transcription, of translation (a response with no
\* choices included) or of dispatch ends the handling of that segment only:
\* the consumer takes no further step for it, makes no retry, does not
\* terminate, and is back at rx.recv() for the next queued event.
C11_FailureEndsSegmentOnly ==
    [][ StageFailed =>
          /\ pc' = "recv"
          /\ result' = "Err"
          /\ calls' = calls
          /\ handled' = handled /\ chan' = chan
      ]_vars

---------------------------------------------------------------------------
(* Encoding failure in the callback (main.rs:471-503) *)

\* a callback closed the open segment without passing any event to
\* try_send: the encoding of its buffer failed
EncodeFailedStep ==
    /\ inputs' # inputs
    /\ is_recording /\ ~is_recording'
    /\ emitted' = emitted

\* C12: a failure while encoding a finalized segment's buffer affects that
\* segment only: the segment is dropped, the segmenter is back in Idle
\* (not recording, counter 0, buffer empty) and the callback goes on being
\* run for every later block.
C12_EncodeFailureIsolated ==
    [][ EncodeFailedStep =>
          /\ ~is_recording'
          /\ silent_frames' = 0
          /\ audio_data' = <<>>
          /\ capture' = "running"
      ]_vars

---------------------------------------------------------------------------
(* Short segments (main.rs:361-374) *)

\* the encoded duration of a payload, samples / (channels * sample_rate),
\* is below min_transcription_duration
ShorterThanMin(wav) ==
    Len(wav.samples) <
        config.audio.min_transcription_duration * wav.sample_rate * wav.channels

\* the consumer is handling an AudioData payload that is too short
HandlingShort ==
    /\ pc \in {"process_audio", "short_stop_typing"}
    /\ ShorterThanMin(cur)

\* C13: for a segment whose encoded duration is below the configured
\* minimum the consumer acquires nothing from the rate limiter, calls
\* neither the transcription nor the translation service, sends no chunk,
\* sends typing=false (the send may fail, which is only logged) and
\* process_audio returns Ok.
C13_ShortSegmentSkipped ==
    [][ (HandlingShort /\ pc' # pc) =>
          /\ grants' = grants /\ rate_limiter' = rate_limiter
          /\ calls' = calls
          /\ attempts' = attempts /\ sent' = sent
          /\ IF pc = "process_audio"
             THEN pc' = "short_stop_typing" /\ osc' = osc
             ELSE /\ pc' = "recv"
                  /\ result' = "Ok"
                  /\ osc' \in {osc, Append(osc, TypingMessage(FALSE))}
      ]_vars

\* C13 witness: a short segment has been handled to its end: typing=false
\* was sent for it, process_audio returned Ok, and no service was called
C13_Witness ==
    /\ pc = "recv"
    /\ handled # <<>>
    /\ IsAudio(handled[Len(handled)])
    /\ ShorterThanMin(handled[Len(handled)].data)
    /\ result = "Ok"
    /\ osc # <<>>
    /\ osc[Len(osc)] = TypingMessage(FALSE)
    /\ calls = <<>> /\ grants = <<>>

---------------------------------------------------------------------------
(* The typing signal (main.rs:591-598, 372, 404) *)

IsTyping(m) == m.addr = "/chatbox/typing"

\* the typing signals sent so far, oldest first
TypingSignals == SelectSeq(osc, IsTyping)

IsStart(ev) == ev.type = "StartRecording"
IsStop(ev) == ev.type = "StopRecording"
IsTypingOn(m) == IsTyping(m) /\ m.args = <<TRUE>>
IsTypingOff(m) == IsTyping(m) /\ m.args = <<FALSE>>

\* capture is Idle (no segment open, no callback under way), no event is
\* queued and the consumer waits in rx.recv()
Quiescent ==
    ~is_recording /\ capture = "running" /\ chan = <<>> /\ pc = "recv"

\* C14: a typing signal is sent whenever a segment opens or closes: once
\* capture is Idle and every queued event has been handled, typing=true has
\* been sent for every segment the callback opened, typing=false for every
\* segment it closed, and the most recently sent typing signal is false.
C14_TypingFollowsSegments ==
    Quiescent =>
        /\ Len(SelectSeq(osc, IsTypingOn)) = Len(SelectSeq(emitted, IsStart))
        /\ Len(SelectSeq(osc, IsTypingOff)) >= Len(SelectSeq(emitted, IsStop))
        /\ TypingSignals # <<>> =>
              TypingSignals[Len(TypingSignals)] = TypingMessage(FALSE)

---------------------------------------------------------------------------
(* The shape of the emitted event sequence (main.rs:456-510) *)

\* C15: in the sequence of events the callback passes to try_send,
\* StartRecording and StopRecording strictly alternate beginning with
\* StartRecording, and an AudioData occurs at most once per pair, right
\* after the pair's StartRecording and right before its StopRecording (an
\* AudioData is the last event only inside the callback that sent it, whose
\* next send is the StopRecording).
C15_OneSegmentAtATime ==
    LET ty == EventTypes(emitted)
        n == Len(ty)
    IN  \A i \in 1..n :
          /\ ty[i] = "StartRecording" => (i = 1 \/ ty[i - 1] = "StopRecording")
          /\ ty[i] = "StopRecording" =>
                (i > 1 /\ ty[i - 1] \in {"StartRecording", "AudioData"})
          /\ ty[i] = "AudioData" =>
                /\ i > 1 /\ ty[i - 1] = "StartRecording"
                /\ IF i < n THEN ty[i + 1] = "StopRecording"
                            ELSE capture = "send_stop"

\* C15 witness: two segments were opened and closed, each with its payload
C15_Witness ==
    EventTypes(emitted) =
        <<"StartRecording", "AudioData", "StopRecording",
          "StartRecording", "AudioData", "StopRecording">>

---------------------------------------------------------------------------
(* The request counter of the rate limiter (main.rs:94-111) *)

\* C16 as claimed: for every max_requests, request_count never exceeds
\* max_requests.
C16_CountWithinMax ==
    rate_limiter.request_count <= rate_limiter.max_requests

\* C16 amended: request_count never exceeds max(max_requests, 1): a call
\* that finds the count at max_requests or above inside the window sleeps
\* with the count untouched, and when it resumes the count is reset and
\* counts that call alone; with max_requests = 0 the count is therefore 1
\* after every call.
C16_CountWithinCap ==
    /\ [](rate_limiter.request_count <= WindowCap)
    /\ [][ /\ (rl_pc = "idle" /\ vars' # vars
               /\ now' - rate_limiter.last_request < Window
               /\ rate_limiter.request_count >= rate_limiter.max_requests)
              => (rl_pc' = "sleeping" /\ rate_limiter' = rate_limiter)
           /\ (rl_pc = "sleeping" /\ rl_pc' = "idle")
              => rate_limiter'.request_count = 1
           /\ (config.rate_limit.requests_per_minute = 0 /\ grants' # grants)
              => rate_limiter'.request_count = 1
       ]_vars

\* C16 witness: with max_requests 0 a first call slept and was counted, and
\* a second call found the count above max_requests and sleeps in its turn
C16_Witness ==
    /\ rate_limiter.max_requests = 0
    /\ Len(grants) = 1
    /\ rate_limiter.request_count = 1
    /\ rl_pc = "sleeping"

---------------------------------------------------------------------------
(* The noise gate over a whole input (main.rs:131-142) *)

\* the indexes of the blocks above the gate threshold
LoudBlocks == { i \in 1..Len(inputs) : Loud(i) }

\* the most recent block above the gate threshold
LastLoud == CHOOSE i \in LoudBlocks : \A j \in LoudBlocks : j <= i

\* C17: after every call, process has answered active exactly when some
\* block above the threshold has been processed and no more than hold_time
\* has elapsed since the most recent such block; that block's instant is
\* the start of the hold timer.
C17_GateActiveIffWithinHold ==
    inputs # <<>> =>
        /\ noise_gate.is_active <=>
              /\ LoudBlocks # {}
              /\ inputs[Len(inputs)].at - inputs[LastLoud].at
                    <= config.audio.noise_gate_hold_time
        /\ LoudBlocks # {} => noise_gate.last_active = inputs[LastLoud].at

\* C17 witness: with hold_time 1 a quiet block one second after the last
\* loud one was still answered active (it is in the buffer), and the quiet
\* block two seconds after it was answered inactive
C17_Witness ==
    /\ config.audio.noise_gate_hold_time = 1
    /\ config.audio.silence_threshold = 2
    /\ Len(inputs) >= 3
    /\ LoudBlocks # {}
    /\ LastLoud = Len(inputs) - 2
    /\ inputs[Len(inputs) - 1].at - inputs[LastLoud].at = 1
    /\ inputs[Len(inputs)].at - inputs[LastLoud].at = 2
    /\ ~noise_gate.is_active
    /\ silent_frames = 1
    /\ audio_data = BlocksData(opened, Len(inputs))

---------------------------------------------------------------------------
(* Every acquisition is granted (main.rs:94-111) *)

\* C18: every call of wait() is granted and none is rejected: a call
\* returns at once or sleeps for the remainder of the current 60-second
\* window (more than 0, at most 60 seconds) and then returns; a suspended
\* call is eventually resumed; and each return adds one grant and counts
\* that call once: the count is one more than before, or 1 when the window
\* was reset.
C18_AlwaysGranted ==
    /\ \A n \in 0..MaxGrants :
          (rl_pc = "sleeping" /\ Len(grants) = n)
              ~> (rl_pc = "idle" /\ Len(grants) = n + 1)
    /\ [][ /\ (rl_pc = "idle" /\ vars' # vars) =>
                \/ /\ rl_pc' = "idle"
                   /\ Len(grants') = Len(grants) + 1
                   /\ grants'[Len(grants')].at = now'
                   /\ rate_limiter'.request_count =
                         IF now' - rate_limiter.last_request < Window
                         THEN rate_limiter.request_count + 1 ELSE 1
                \/ /\ rl_pc' = "sleeping"
                   /\ grants' = grants
                   /\ wake_at' - now' = Window - (now' - rate_limiter.last_request)
                   /\ wake_at' - now' > 0 /\ wake_at' - now' <= Window
           /\ rl_pc = "sleeping" =>
                \/ vars' = vars
                \/ /\ rl_pc' = "idle"
                   /\ Len(grants') = Len(grants) + 1
                   /\ rate_limiter'.request_count = 1
       ]_vars

\* C18 witness: with max_requests 1 the second call slept to the end of the
\* window, was resumed one second late, and was granted and counted
C18_Witness ==
    /\ rate_limiter.max_requests = 1
    /\ Len(grants) = 2
    /\ rl_pc = "idle"
    /\ grants[2].at = wake_at + 1
    /\ wake_at = grants[1].window + Window
    /\ rate_limiter.request_count = 1

---------------------------------------------------------------------------
(* When an open segment ends (main.rs:457-473) *)

\* callbacks since the last block above the threshold: the consecutive
\* below-threshold invocations so far
QuietRun == Len(inputs) - LastLoud

\* of those, the callbacks that found the gate inactive: they came more than
\* hold_time after the last block above the threshold
InactiveRun == PastHold(LastLoud, LastLoud + 1, Len(inputs))

\* C19 as claimed (for a threshold of at least 1): the segment opened by the
\* last loud block is open exactly while fewer consecutive below-threshold
\* callbacks than silence_threshold have followed it.
C19_EndsAtQuietRun ==
    (LoudBlocks # {} /\ config.audio.silence_threshold >= 1) =>
        (is_recording <=> QuietRun < config.audio.silence_threshold)

\* C19 amended: what is counted is the callbacks at which the gate is
\* inactive, i.e. the below-threshold blocks that come more than hold_time
\* after the last loud block: the segment is open exactly while fewer than
\* max(silence_threshold, 1) of them have followed the last loud block, and
\* the callback at which their number reaches that value is the one that
\* closes the segment and emits StopRecording.
C19_EndsAtInactiveRun ==
    /\ [](LoudBlocks # {} =>
            (is_recording <=>
                InactiveRun < Max(1, config.audio.silence_threshold)))
    /\ [][ (is_recording /\ inputs' # inputs) =>
             /\ ~is_recording' <=>
                   InactiveRun' = Max(1, config.audio.silence_threshold)
             /\ ~is_recording' <=> capture' = "send_stop"
       ]_vars
    /\ [][ (capture = "send_stop" /\ capture' # capture) =>
             /\ emitted' = Append(emitted, StopRecording)
             /\ inputs' = inputs
       ]_vars

\* C19 witness: with silence_threshold 2 and hold_time 1 the segment was
\* closed by the third below-threshold callback after the last loud block,
\* the second one at which the gate was inactive
C19_Witness ==
    /\ config.audio.silence_threshold = 2
    /\ config.audio.noise_gate_hold_time = 1
    /\ LoudBlocks # {}
    /\ QuietRun = 3
    /\ InactiveRun = 2
    /\ ~is_recording
    /\ emitted # <<>>
    /\ emitted[Len(emitted)] = StopRecording

---------------------------------------------------------------------------
(* The content of a payload (main.rs:457-509) *)

\* C20: every AudioData payload is non-empty and holds, in arrival order,
\* exactly the samples of the blocks from the one that opened the segment
\* (a block above the threshold, delivered while not recording) up to but
\* excluding the block whose callback finalized it: no sample delivered
\* while Idle, none of an earlier segment.
C20_PayloadIsSegment ==
    [][ /\ (~is_recording /\ is_recording') =>
              /\ opened' = Len(inputs')
              /\ Loud(opened)'
        /\ \A i \in (Len(emitted) + 1)..Len(emitted') :
              IsAudio(emitted'[i]) =>
                 /\ emitted'[i].data.samples # <<>>
                 /\ emitted'[i].data.samples = BlocksData(opened, Len(inputs))
                 /\ Len(inputs') = Len(inputs) + 1
                 /\ opened' = opened
      ]_vars

\* C20 witness: a quiet block while Idle, a loud block, a quiet block inside
\* the segment and the quiet block that finalized it: the payload is blocks
\* 2 and 3
C20_Witness ==
    /\ Len(inputs) = 4
    /\ opened = 2
    /\ ~Loud(1) /\ Loud(2) /\ ~Loud(3) /\ ~Loud(4)
    /\ EventTypes(emitted) = <<"StartRecording", "AudioData", "StopRecording">>
    /\ emitted[2].data.samples = BlocksData(2, 3)
    /\ audio_data = <<>>

---------------------------------------------------------------------------
(* The segmenter's state between callbacks (main.rs:450-509) *)

\* C21: between callbacks, with no encoding failure: while the segmenter is
\* not recording the sample buffer is empty and silent_frames is 0; while
\* it is recording silent_frames is below the silence threshold (it is 0
\* when the threshold is 0 or 1). silent_frames is thus bounded.
C21_SegmenterInvariant ==
    /\ ~is_recording => (audio_data = <<>> /\ silent_frames = 0)
    /\ is_recording =>
          /\ silent_frames >= 0
          /\ silent_frames < Max(1, config.audio.silence_threshold)
          /\ config.audio.silence_threshold \in {0, 1} => silent_frames = 0

\* C21 witness: with silence_threshold 2 a pause is being bridged: the
\* segment is open, one gate-inactive callback has been counted and its
\* block is in the buffer after the opening block
C21_Witness ==
    /\ config.audio.silence_threshold = 2
    /\ is_recording
    /\ silent_frames = 1
    /\ ~noise_gate.is_active
    /\ opened >= 1
    /\ audio_data = BlocksData(opened, Len(inputs))
    /\ ~Loud(Len(inputs))

===========================================================================
